---------------------------- MODULE Spec2Model ----------------------------
(***************************************************************************)
(* A model of src/app.js: an Express server that drives one Playwright     *)
(* browser session.  The model covers the custom-selector parser           *)
(* (parseCustomSelector), the locator resolution chain                     *)
(* (buildPlaywrightLocator), the pre-click waits (performPreClickWaits),   *)
(* the request handlers and the session lifecycle (initializePlaywright,   *)
(* /restart-browser).                                                      *)
(*                                                                         *)
(* JavaScript strings are sequences of tokens.  A token is either one of   *)
(* the separator characters the code looks at (";", "=", " ", ",") or an   *)
(* opaque non-empty word that contains none of them.  The values           *)
(* undefined and "a value that is not a string" are two reserved           *)
(* one-token sequences.                                                    *)
(***************************************************************************)
EXTENDS Integers, Sequences, FiniteSets, TLC

-----------------------------------------------------------------------------
(* JavaScript values *)

undefined == <<"<undefined>">>
nonString == <<"<number>">>
emptyString == <<>>

IsString(v) == v # undefined /\ v # nonString

\* Truthy with "" truthy: only undefined is falsy.
TruthyEmptyString(v) == v # undefined

\* !v for the values of the model: undefined and "" are falsy, the
\* non-string value (a non-zero number) and every other string are truthy.
Truthy(v) == v # undefined /\ v # emptyString

\* a || b
Or(a, b) == IF Truthy(a) THEN a ELSE b

Str(w) == <<w>>

IsWhitespace(t) == t = " "

RECURSIVE TrimLeft(_)
TrimLeft(s) ==
    IF s # <<>> /\ IsWhitespace(Head(s)) THEN TrimLeft(Tail(s)) ELSE s

RECURSIVE TrimRight(_)
TrimRight(s) ==
    IF s # <<>> /\ IsWhitespace(s[Len(s)])
    THEN TrimRight(SubSeq(s, 1, Len(s) - 1))
    ELSE s

\* String.prototype.trim
Trim(s) == TrimRight(TrimLeft(s))

\* String.prototype.indexOf for a one-character needle: 0-based, -1 if absent
RECURSIVE IndexFrom(_, _, _)
IndexFrom(s, t, i) ==
    IF i > Len(s) THEN -1
    ELSE IF s[i] = t THEN i - 1
    ELSE IndexFrom(s, t, i + 1)

IndexOf(s, t) == IndexFrom(s, t, 1)

Includes(s, t) == IndexOf(s, t) >= 0

\* String.prototype.split for a one-character separator
RECURSIVE Split(_, _)
Split(s, sep) ==
    LET i == IndexOf(s, sep) IN
    IF i < 0 THEN <<s>>
    ELSE <<SubSeq(s, 1, i)>> \o Split(SubSeq(s, i + 2, Len(s)), sep)

RECURSIVE MapTrim(_)
MapTrim(ps) ==
    IF ps = <<>> THEN <<>> ELSE <<Trim(Head(ps))>> \o MapTrim(Tail(ps))

RECURSIVE FilterNonEmpty(_)
FilterNonEmpty(ps) ==
    IF ps = <<>> THEN <<>>
    ELSE IF Head(ps) # <<>> THEN <<Head(ps)>> \o FilterNonEmpty(Tail(ps))
    ELSE FilterNonEmpty(Tail(ps))

-----------------------------------------------------------------------------
(* parseCustomSelector *)

\* An attributes object: a function from keys (strings) to values (strings).
EmptyAttributes == [k \in {} |-> emptyString]

\* attributes[key] = value
SetAttribute(attributes, key, value) ==
    [k \in DOMAIN attributes \cup {key} |->
        IF k = key THEN value ELSE attributes[k]]

\* attributes[key], undefined when the object has no such key
Get(attributes, w) ==
    IF Str(w) \in DOMAIN attributes THEN attributes[Str(w)] ELSE undefined

\* ParsePart with a '=' at position 0 accepted.
ParsePartAcceptsEmptyKey(attributes, part) ==
    LET firstEqualSign == IndexOf(part, "=") IN
    IF firstEqualSign >= 0
    THEN SetAttribute(attributes,
                      Trim(SubSeq(part, 1, firstEqualSign)),
                      Trim(SubSeq(part, firstEqualSign + 2, Len(part))))
    ELSE attributes

\* the body of parts.forEach for one part
ParsePart(attributes, part) ==
    LET firstEqualSign == IndexOf(part, "=") IN
    IF firstEqualSign > 0
    THEN SetAttribute(attributes,
                      Trim(SubSeq(part, 1, firstEqualSign)),
                      Trim(SubSeq(part, firstEqualSign + 2, Len(part))))
    ELSE attributes

RECURSIVE ParseParts(_, _)
ParseParts(attributes, parts) ==
    IF parts = <<>> THEN attributes
    ELSE ParseParts(ParsePart(attributes, Head(parts)), Tail(parts))

SelectorParts(customSelectorString) ==
    FilterNonEmpty(MapTrim(Split(customSelectorString, ";")))

parseCustomSelector(customSelectorString) ==
    IF ~Truthy(customSelectorString) \/ ~IsString(customSelectorString)
    THEN EmptyAttributes
    ELSE LET parts == SelectorParts(customSelectorString) IN
         IF Len(parts) > 0 /\ ~Includes(parts[1], "=")
         THEN ParseParts(SetAttribute(EmptyAttributes, Str("tagFromSelector"), parts[1]),
                         Tail(parts))
         ELSE ParseParts(EmptyAttributes, parts)

-----------------------------------------------------------------------------
(* The page capability of the automation engine *)

\* The value of the global page variable: NoPage is null, a positive number
\* is the page of the session with that number.
NoPage == 0

\* A locator is a record; its root is the page (or null) it was made on.
PageRoot(p) == [via |-> "page", page |-> p]

IsNullRoot(l) == l.via = "page" /\ l.page = NoPage

Locate(on, selector) ==
    [via |-> "locator", on |-> on, arg |-> selector, name |-> undefined]

FilterHasText(on, text) ==
    [via |-> "filter", on |-> on, arg |-> text, name |-> undefined]

GetByRole(on, role, name) ==
    [via |-> "getByRole", on |-> on, arg |-> role, name |-> name]

GetByLabel(on, label) ==
    [via |-> "getByLabel", on |-> on, arg |-> label, name |-> undefined]

GetByText(on, text) ==
    [via |-> "getByText", on |-> on, arg |-> text, name |-> undefined]

First(l) == [via |-> "first", on |-> l, arg |-> emptyString, name |-> undefined]

\* the value of targetLocator while nothing has been assigned to it
undefinedLocator == [via |-> "undefined"]

\* What an awaited engine call does: it returns a value or it throws.
Returned(n) == [threw |-> FALSE, value |-> n, name |-> "returned"]
Threw(errorName) == [threw |-> TRUE, value |-> 0, name |-> errorName]
\* The call has not settled yet.
Pending == [threw |-> FALSE, value |-> 0, name |-> "pending"]

\* A JavaScript exception: error.name and what error.message says.
Exception(errorName, message) == [name |-> errorName, message |-> message]
NoException == Exception("none", "none")

\* One call made on the page capability and what it did.  Making a locator
\* is synchronous and always returns.
Op(call, target, result) == [op |-> call, target |-> target, result |-> result]

Made(locator) == Op("locate", locator, Returned(0))

\* The call started last settles with `outcome`.
Settle(ops, outcome) == [ops EXCEPT ![Len(ops)].result = outcome]

-----------------------------------------------------------------------------
(* buildPlaywrightLocator *)

Star == Str("*")

\* `${value}` inside a template literal
Stringify(v) == IF v = nonString THEN Str("5") ELSE v

\* line 65
EffectiveTag(parsedAttributes, originalTagNameFromBody) ==
    Or(Or(Get(parsedAttributes, "tagFromSelector"), originalTagNameFromBody), Star)

IdSelector(id) == <<"#">> \o id

AttributeSelector(tag, attribute, value) ==
    Stringify(tag) \o <<"[", attribute, "=\"">> \o value \o <<"\"]">>

RECURSIVE ClassSuffix(_)
ClassSuffix(classList) ==
    IF classList = <<>> THEN <<>>
    ELSE <<".">> \o Head(classList) \o ClassSuffix(Tail(classList))

\* lines 117-126: the CSS string of the last rule
CssString(parsedAttributes, tag) ==
    LET name    == Get(parsedAttributes, "name")
        classes == Get(parsedAttributes, "classes")
        start   == IF tag = Star /\ (Truthy(name) \/ Truthy(classes))
                   THEN emptyString ELSE Stringify(tag)
        named   == IF Truthy(name)
                   THEN start \o <<"[name=\"">> \o name \o <<"\"]">>
                   ELSE start
    IN  IF Truthy(classes)
        THEN named \o ClassSuffix(FilterNonEmpty(MapTrim(Split(classes, ","))))
        ELSE named

\* StrategyRule with the data-testid branch tested before the id branch.
StrategyRuleTestIdFirst(parsedAttributes, tag) ==
    IF Truthy(Get(parsedAttributes, "data-testid")) THEN 2
    ELSE IF Truthy(Get(parsedAttributes, "id")) THEN 1
    ELSE IF Truthy(Get(parsedAttributes, "data-cy")) THEN 3
    ELSE IF Truthy(Get(parsedAttributes, "data-qa")) THEN 4
    ELSE IF Truthy(Get(parsedAttributes, "role")) THEN 5
    ELSE IF Truthy(Get(parsedAttributes, "aria-label")) THEN 6
    ELSE IF Truthy(Get(parsedAttributes, "text")) THEN 7
    ELSE IF \/ tag # Star
            \/ Truthy(Get(parsedAttributes, "name"))
            \/ Truthy(Get(parsedAttributes, "classes")) THEN 8
    ELSE 0

\* The if / else-if chain of lines 76-132: the number of the first branch
\* whose condition is true, 0 when none is.
StrategyRule(parsedAttributes, tag) ==
    IF Truthy(Get(parsedAttributes, "id")) THEN 1
    ELSE IF Truthy(Get(parsedAttributes, "data-testid")) THEN 2
    ELSE IF Truthy(Get(parsedAttributes, "data-cy")) THEN 3
    ELSE IF Truthy(Get(parsedAttributes, "data-qa")) THEN 4
    ELSE IF Truthy(Get(parsedAttributes, "role")) THEN 5
    ELSE IF Truthy(Get(parsedAttributes, "aria-label")) THEN 6
    ELSE IF Truthy(Get(parsedAttributes, "text")) THEN 7
    ELSE IF \/ tag # Star
            \/ Truthy(Get(parsedAttributes, "name"))
            \/ Truthy(Get(parsedAttributes, "classes")) THEN 8
    ELSE 0

\* RoleName with aria-label tested before text.
RoleNameLabelFirst(parsedAttributes) ==
    IF Truthy(Get(parsedAttributes, "aria-label"))
    THEN Get(parsedAttributes, "aria-label")
    ELSE IF Truthy(Get(parsedAttributes, "text")) THEN Get(parsedAttributes, "text")
    ELSE undefined

\* lines 88-93: options.name of getByRole
RoleName(parsedAttributes) ==
    IF Truthy(Get(parsedAttributes, "text")) THEN Get(parsedAttributes, "text")
    ELSE IF Truthy(Get(parsedAttributes, "aria-label"))
         THEN Get(parsedAttributes, "aria-label")
    ELSE undefined

\* The outcome of a part of the resolution: the exception thrown (or none),
\* the locator assigned, the calls made on the page and the branch taken.
Outcome(error, locator, ops, rule) ==
    [error |-> error, locator |-> locator, ops |-> ops, rule |-> rule]

\* TextTarget without the fallback of line 108: no tag-scoped match leaves
\* targetLocator unassigned.
TextTargetNoFallback(rule, baseLocator, parsedAttributes, tag, specificCount) ==
    LET text      == Get(parsedAttributes, "text")
        specific  == FilterHasText(Locate(baseLocator, Stringify(tag)), text)
        broad     == GetByText(baseLocator, text)
        ops       == <<Made(specific), Op("count", specific, specificCount)>>
    IN  IF tag # Star
        THEN IF specificCount.threw
             THEN Outcome(Exception(specificCount.name, "engine"),
                          undefinedLocator, ops, rule)
             ELSE IF specificCount.value > 0
             THEN Outcome(NoException, specific, ops, rule)
             ELSE Outcome(NoException, undefinedLocator, ops, rule)
        ELSE Outcome(NoException, broad, <<Made(broad)>>, rule)

\* lines 99-113, the text branch on a baseLocator that is not null: with a
\* tag the tag-scoped lookup is counted (line 104) and kept when it has a
\* match, else the lookup is getByText on the same baseLocator.
TextTarget(rule, baseLocator, parsedAttributes, tag, specificCount) ==
    LET text      == Get(parsedAttributes, "text")
        specific  == FilterHasText(Locate(baseLocator, Stringify(tag)), text)
        broad     == GetByText(baseLocator, text)
        ops       == <<Made(specific), Op("count", specific, specificCount)>>
    IN  IF tag # Star
        THEN IF specificCount.threw
             THEN Outcome(Exception(specificCount.name, "engine"),
                          undefinedLocator, ops, rule)
             ELSE IF specificCount.value > 0
             THEN Outcome(NoException, specific, ops, rule)
             ELSE Outcome(NoException, broad, ops \o <<Made(broad)>>, rule)
        ELSE Outcome(NoException, broad, <<Made(broad)>>, rule)

\* The body of the branch `rule`, run on baseLocator.  A method call on a
\* null baseLocator throws a TypeError; specificCount is what the count of
\* line 104 does.
SelectTarget(rule, baseLocator, currentPage, parsedAttributes, tag, specificCount) ==
    LET typeError == Outcome(Exception("TypeError", "null"), undefinedLocator, <<>>, rule)
        made(l)   == Outcome(NoException, l, <<Made(l)>>, rule)
        none      == Outcome(NoException, undefinedLocator, <<>>, rule)
        css       == CssString(parsedAttributes, tag)
    IN  CASE rule = 1 ->
               IF IsNullRoot(baseLocator) THEN typeError
               ELSE made(Locate(baseLocator, IdSelector(Get(parsedAttributes, "id"))))
          [] rule \in {2, 3, 4} ->
               LET attribute == CASE rule = 2 -> "data-testid"
                                  [] rule = 3 -> "data-cy"
                                  [] rule = 4 -> "data-qa"
               IN  IF IsNullRoot(baseLocator) THEN typeError
                   ELSE made(Locate(baseLocator,
                                    AttributeSelector(tag, attribute,
                                                      Get(parsedAttributes, attribute))))
          [] rule = 5 ->
               IF IsNullRoot(baseLocator) THEN typeError
               ELSE made(GetByRole(baseLocator, Get(parsedAttributes, "role"),
                                   RoleName(parsedAttributes)))
          [] rule = 6 ->
               IF IsNullRoot(baseLocator) THEN typeError
               ELSE made(GetByLabel(baseLocator, Get(parsedAttributes, "aria-label")))
          [] rule = 7 ->
               IF IsNullRoot(baseLocator) THEN typeError
               ELSE TextTarget(rule, baseLocator, parsedAttributes, tag, specificCount)
          [] rule = 8 ->
               IF Truthy(css) /\ css # Star
               THEN IF IsNullRoot(baseLocator) THEN typeError
                    ELSE made(Locate(baseLocator, css))
               ELSE IF css = Star /\ baseLocator # PageRoot(currentPage)
               THEN made(Locate(baseLocator, Star))
               ELSE none
          [] OTHER -> none

\* NoTargetError without the more specific error of line 138.
NoTargetErrorGeneric(baseLocator, currentPage, parsedAttributes) ==
    Exception("Error", "NoValidLocator")

\* lines 134-141: what is thrown when no targetLocator was assigned
NoTargetError(baseLocator, currentPage, parsedAttributes) ==
    IF /\ baseLocator # PageRoot(currentPage)
       /\ DOMAIN parsedAttributes \ {Str("closestId"), Str("tagFromSelector")} = {}
    THEN Exception("Error", "OnlyClosestId")
    ELSE Exception("Error", "NoValidLocator")

\* AnchorMissing with the check of line 70 left out.
AnchorMissingIgnored(anchorCount) == FALSE

\* line 70: the anchor has no match
AnchorMissing(anchorCount) == anchorCount.value = 0

\* buildPlaywrightLocator; anchorCount and specificCount are what the engine
\* does at the count of line 70 and at the count of line 104.
buildPlaywrightLocator(currentPage, parsedAttributes, originalTagNameFromBody, anchorCount, specificCount) ==
    LET tag       == EffectiveTag(parsedAttributes, originalTagNameFromBody)
        closestId == Get(parsedAttributes, "closestId")
        anchor    == Locate(PageRoot(currentPage), IdSelector(closestId))
        anchorOps == <<Made(anchor), Op("count", anchor, anchorCount)>>
        rule      == StrategyRule(parsedAttributes, tag)
        rest(baseLocator, ops) ==
            LET t == SelectTarget(rule, baseLocator, currentPage,
                                  parsedAttributes, tag, specificCount)
            IN  IF t.error # NoException
                THEN Outcome(t.error, undefinedLocator, ops \o t.ops, rule)
                ELSE IF t.locator = undefinedLocator
                THEN Outcome(NoTargetError(baseLocator, currentPage, parsedAttributes),
                             undefinedLocator, ops \o t.ops, rule)
                ELSE Outcome(NoException, t.locator, ops \o t.ops, rule)
    IN  IF Truthy(closestId)
        THEN IF currentPage = NoPage
             THEN Outcome(Exception("TypeError", "null"), undefinedLocator, <<>>, 0)
             ELSE IF anchorCount.threw
             THEN Outcome(Exception(anchorCount.name, "engine"),
                          undefinedLocator, anchorOps, 0)
             ELSE IF AnchorMissing(anchorCount)
             THEN Outcome(Exception("Error", "AnchorNotFound"),
                          undefinedLocator, anchorOps, 0)
             ELSE rest(anchor, anchorOps)
        ELSE rest(PageRoot(currentPage), <<>>)

-----------------------------------------------------------------------------
(* The server: state *)

\* The browsers that may be launched in one run of the model.
MaxLaunch == 3

\* The handlers that may be in flight at once: 0 is startServer, the others
\* are the request handlers Express runs.  Two requests may overlap.  The
\* handlers of the page endpoints only read the globals and none reads
\* another handler's state, so one of them at a time shows all they can
\* observe: request 1 is for any endpoint, request 2 for /restart-browser.
Requests == {1, 2}
PageRequests == {1}
Handlers == {0} \cup Requests

NoBrowser == 0

ClickEndpoints == {"/click/css", "/click/xpath", "/click/text", "/click/custom"}
PageEndpoints == ClickEndpoints \cup {"/set-url", "/enter-keyboard"}

\* The custom selectors the requests of the server carry.
ServerSelectors ==
    { <<"button", ";", "data-testid", "=", "submit">>,
      <<"closestId", "=", "a", ";", "role", "=", "button">>,
      <<"closestId", "=", "a">>,
      <<"span", ";", "text", "=", "b">>,
      <<"closestId", "=", "a", ";", "text", "=", "b">>,
      <<";">> }

\* The custom selectors that come with a tagName in the request body.
TaggedByBody == { <<"closestId", "=", "a", ";", "text", "=", "b">> }

\* A field of a request body: absent, not a string, "" or a string.
FieldValues(strings) == {undefined, nonString, emptyString} \cup strings

\* req.body of each endpoint: field is the field the endpoint requires
\* (navigate_url, xpath, cssSelector, textContent, customSelector,
\* enter_value), tagName the optional tag name.
Body(field, tagName) == [field |-> field, tagName |-> tagName]

Bodies(endpoint) ==
    CASE endpoint = "/set-url" ->
           {Body(f, undefined) : f \in FieldValues({Str("url")})}
      [] endpoint = "/click/css" ->
           {Body(f, undefined) : f \in FieldValues({Str("css")})}
      [] endpoint = "/click/xpath" ->
           {Body(f, undefined) :
               f \in FieldValues({Str("//a"), <<"xpath", "=", "//a">>})}
      [] endpoint = "/click/text" ->
           {Body(f, t) : f \in FieldValues({Str("b")}),
                         t \in {undefined, nonString, Str("span")}}
      [] endpoint = "/click/custom" ->
           {Body(f, undefined) : f \in FieldValues(ServerSelectors)}
              \cup {Body(f, Str("span")) : f \in TaggedByBody}
      [] endpoint = "/enter-keyboard" ->
           {Body(f, undefined) : f \in FieldValues({Str("Enter")})}
      [] OTHER -> {Body(undefined, undefined)}

VARIABLES
    process,    \* "starting", "listening" or "exited"
    browser,    \* the global browser: NoBrowser or the number of a launched browser
    context,    \* the global context: the number of the browser it was made on
    page,       \* the global page: the number of the browser it was made on
    launched,   \* how many browsers chromium.launch has returned
    closed,     \* the browsers whose close() has returned
    handler     \* the state of each handler

vars == <<process, browser, context, page, launched, closed, handler>>

NoResponse == [status |-> 0, error |-> "none", details |-> "none"]

\* A handler that is not running.
Idle ==
    [ endpoint  |-> "none",
      body      |-> Body(undefined, undefined),
      pc        |-> "idle",
      pageAtEntry |-> NoPage,       \* the global page when the handler began
      own       |-> NoBrowser,      \* restart / startup: the browser it closes or launched
      parsedAttributes |-> EmptyAttributes,   \* /click/custom: the parsed selector
      locator   |-> undefinedLocator,
      rule      |-> 0,              \* the branch buildPlaywrightLocator took
      ops       |-> <<>>,           \* the calls made on the page, in order
      thrownBy  |-> "none",         \* the call whose exception the handler caught
      caught    |-> NoException,
      response  |-> NoResponse ]

Respond(h, status, error, details) ==
    [h EXCEPT !.pc = "done",
              !.response = [status |-> status, error |-> error, details |-> details]]

\* What the awaited engine calls may do.
Outcomes(call) ==
    CASE call \in {"waitForLoadState", "click", "goto"} ->
           {Returned(0), Threw("TimeoutError"), Threw("Error")}
      [] OTHER -> {Returned(0), Threw("Error")}

\* The largest number of matches a count() reports.
MaxCount == 2

CountOutcomes == {Returned(n) : n \in 0..MaxCount} \cup {Threw("Error")}

-----------------------------------------------------------------------------
(* The click handlers *)

\* ClickCatch without the TimeoutError case.
ClickCatchAlways500(h, call, error) ==
    Respond([h EXCEPT !.thrownBy = call, !.caught = error],
            500, "Failed to click element", error.message)

\* The catch block of a click handler (lines 189-193, 210-214, 248-252, 290-297).
ClickCatch(h, call, error) ==
    LET g == [h EXCEPT !.thrownBy = call, !.caught = error] IN
    IF error.name = "TimeoutError"
    THEN Respond(g, 408, "Timeout: Element not clickable or not found in time",
                 error.message)
    ELSE Respond(g, 500, "Failed to click element", error.message)

\* The first statements of performPreClickWaits (lines 19-25), called with
\* pageInstance: it throws when there is no page, else it starts the
\* network-idle wait.
BeginPreClickWaits(h, pageInstance) ==
    IF pageInstance = NoPage
    THEN ClickCatch(h, "performPreClickWaits",
                    Exception("Error", "Playwright page is not initialized."))
    ELSE [h EXCEPT !.pc = "networkidle",
                   !.ops = @ \o <<Op("waitForLoadState", PageRoot(pageInstance), Pending)>>]

\* The validation of a click handler's body, after the page check:
\* the error message of the 400 it answers, "none" when the body is valid.
ClickBodyError(endpoint, body) ==
    CASE endpoint = "/click/xpath" ->
           IF ~Truthy(body.field) \/ ~IsString(body.field)
           THEN "Missing or invalid xpath in request body" ELSE "none"
      [] endpoint = "/click/css" ->
           IF ~Truthy(body.field) \/ ~IsString(body.field)
           THEN "Missing or invalid cssSelector in request body" ELSE "none"
      [] endpoint = "/click/text" ->
           IF ~IsString(body.field)
           THEN "Missing or invalid textContent (must be a string) in request body"
           ELSE IF Truthy(body.tagName) /\ ~IsString(body.tagName)
           THEN "Invalid tagName in request body, must be a string if provided"
           ELSE "none"
      [] endpoint = "/click/custom" ->
           IF ~Truthy(body.field) \/ ~IsString(body.field)
           THEN "Missing or invalid customSelector (string) in request body"
           ELSE "none"

\* ClickEntry with the body validated before the page is checked, the order
\* of /set-url.
ClickEntryBodyFirst(h) ==
    IF ClickBodyError(h.endpoint, h.body) # "none"
    THEN Respond(h, 400, ClickBodyError(h.endpoint, h.body), "none")
    ELSE IF page = NoPage
    THEN Respond(h, 500, "Playwright page is not initialized yet.", "none")
    ELSE BeginPreClickWaits(h, page)

\* A click handler from its first line to its first await.
ClickEntry(h) ==
    IF page = NoPage
    THEN Respond(h, 500, "Playwright page is not initialized yet.", "none")
    ELSE IF ClickBodyError(h.endpoint, h.body) # "none"
    THEN Respond(h, 400, ClickBodyError(h.endpoint, h.body), "none")
    ELSE BeginPreClickWaits(h, page)

\* A request for a click endpoint arrives and its handler runs to its first await.
ReceiveClick(r) ==
    /\ process = "listening"
    /\ handler[r].pc = "idle"
    /\ \E endpoint \in ClickEndpoints : \E body \in Bodies(endpoint) :
         handler' = [handler EXCEPT ![r] =
            ClickEntry([Idle EXCEPT !.endpoint = endpoint, !.body = body,
                                    !.pageAtEntry = page])]
    /\ UNCHANGED <<process, browser, context, page, launched, closed>>

\* NetworkIdleDone with the settle delay waited only when the network-idle
\* wait returned.
NetworkIdleDoneSettlesOnSuccess(r) ==
    /\ process = "listening"
    /\ handler[r].pc = "networkidle"
    /\ \E outcome \in Outcomes("waitForLoadState") :
         handler' = [handler EXCEPT ![r] =
            IF outcome.threw
            THEN [@ EXCEPT !.pc = "count",
                           !.locator = Locate(handler[r].ops[1].target, Str("css")),
                           !.ops = Settle(@, outcome)
                                      \o <<Op("count",
                                              Locate(handler[r].ops[1].target, Str("css")),
                                              Pending)>>]
            ELSE [@ EXCEPT !.pc = "settle",
                           !.ops = Settle(@, outcome)
                                      \o <<Op("waitForTimeout", handler[r].ops[1].target,
                                              Pending)>>]]
    /\ UNCHANGED <<process, browser, context, page, launched, closed>>

\* waitForLoadState('networkidle') returns or throws: either way (lines 23-30)
\* the settle delay is started on the same page.
NetworkIdleDone(r) ==
    /\ process = "listening"
    /\ handler[r].pc = "networkidle"
    /\ \E outcome \in Outcomes("waitForLoadState") :
         handler' = [handler EXCEPT ![r] =
            [@ EXCEPT !.pc = "settle",
                      !.ops = Settle(@, outcome)
                                 \o <<Op("waitForTimeout", handler[r].ops[1].target,
                                         Pending)>>]]
    /\ UNCHANGED <<process, browser, context, page, launched, closed>>

\* line 183
FinalXPath(xpath) ==
    IF Len(xpath) >= 2 /\ xpath[1] = "xpath" /\ xpath[2] = "="
    THEN xpath ELSE <<"xpath", "=">> \o xpath

\* The locator a click handler other than /click/custom makes on currentPage
\* (lines 184, 205, 231-235).
NativeLocator(endpoint, body, currentPage) ==
    CASE endpoint = "/click/xpath" ->
           Locate(PageRoot(currentPage), FinalXPath(body.field))
      [] endpoint = "/click/css" ->
           Locate(PageRoot(currentPage), body.field)
      [] endpoint = "/click/text" ->
           IF Truthy(body.tagName)
           THEN FilterHasText(Locate(PageRoot(currentPage), body.tagName), body.field)
           ELSE GetByText(PageRoot(currentPage), body.field)

\* A handler starts locator.count().
BeginCount(h, locator) ==
    [h EXCEPT !.pc = "count", !.locator = locator,
              !.ops = @ \o <<Op("count", locator, Pending)>>]

\* What a click handler does when performPreClickWaits has returned, up to
\* its next await.  /click/custom goes on in Resolve.
AfterPreClickWaits(h) ==
    IF h.endpoint = "/click/custom"
    THEN [h EXCEPT !.pc = "resolve"]
    ELSE IF page = NoPage
    THEN ClickCatch(h, "page", Exception("TypeError", "null"))
    ELSE LET locator == NativeLocator(h.endpoint, h.body, page) IN
         BeginCount([h EXCEPT !.ops = @ \o <<Made(locator)>>], locator)

\* waitForTimeout(5000) returns or throws (line 30 is outside the try block).
SettleDone(r) ==
    /\ process = "listening"
    /\ handler[r].pc = "settle"
    /\ \E outcome \in Outcomes("waitForTimeout") :
         handler' = [handler EXCEPT ![r] =
            LET h == [@ EXCEPT !.ops = Settle(@, outcome)] IN
            IF outcome.threw
            THEN ClickCatch(h, "waitForTimeout", Exception(outcome.name, "engine"))
            ELSE AfterPreClickWaits(h)]
    /\ UNCHANGED <<process, browser, context, page, launched, closed>>

\* /click/custom, lines 272-279: the selector is parsed and resolved on the
\* global page; the handler catches what buildPlaywrightLocator throws, else
\* counts the matches of the locator it returned.
ResolveCustom(h, currentPage, anchorCount, specificCount) ==
    LET parsedAttributes == parseCustomSelector(h.body.field)
        built == buildPlaywrightLocator(currentPage, parsedAttributes, h.body.tagName,
                                        anchorCount, specificCount)
        g == [h EXCEPT !.parsedAttributes = parsedAttributes,
                       !.ops = @ \o built.ops, !.rule = built.rule]
    IN  IF built.error # NoException
        THEN ClickCatch(g, "buildPlaywrightLocator", built.error)
        ELSE IF built.locator = undefinedLocator
        THEN Respond(g, 400,
                     "Failed to construct a Playwright locator from custom selector.",
                     "none")
        ELSE BeginCount(g, built.locator)

\* What the count() of line 70 and the count() of line 104 may do: a count
\* that the resolution does not reach stays pending.
AnchorOutcomes(parsedAttributes, currentPage) ==
    IF Truthy(Get(parsedAttributes, "closestId")) /\ currentPage # NoPage
    THEN CountOutcomes ELSE {Pending}

SpecificOutcomes(parsedAttributes, tagName) ==
    LET tag == EffectiveTag(parsedAttributes, tagName) IN
    IF StrategyRule(parsedAttributes, tag) = 7 /\ tag # Star
    THEN CountOutcomes ELSE {Pending}

Resolve(r) ==
    /\ process = "listening"
    /\ handler[r].pc = "resolve"
    /\ LET parsedAttributes == parseCustomSelector(handler[r].body.field) IN
       \E anchorCount \in AnchorOutcomes(parsedAttributes, page),
          specificCount \in SpecificOutcomes(parsedAttributes, handler[r].body.tagName) :
         handler' = [handler EXCEPT ![r] =
                        ResolveCustom(@, page, anchorCount, specificCount)]
    /\ UNCHANGED <<process, browser, context, page, launched, closed>>

\* A handler starts locator.first().click().
BeginClick(h) ==
    [h EXCEPT !.pc = "click", !.ops = @ \o <<Op("click", First(h.locator), Pending)>>]

NotFound(h) == Respond(h, 404, "Element not found", "none")

\* AfterCount without the check for zero matches.
AfterCountAlwaysClicks(g, n) == BeginClick(g)

\* What a click handler does with the number its first count() returned
\* (lines 185, 206, 238-243, 279-282).
AfterCount(g, n) ==
    IF n # 0 THEN BeginClick(g)
    ELSE IF g.endpoint = "/click/text"
    THEN IF Truthy(g.body.tagName) /\ g.body.field = emptyString
         THEN IF page = NoPage
              THEN ClickCatch(g, "page", Exception("TypeError", "null"))
              ELSE LET precise == Locate(PageRoot(page),
                                         <<"xpath", "=", "//">> \o g.body.tagName
                                            \o <<"[normalize-space(.)=\"\"]">>)
                   IN  [g EXCEPT !.pc = "recount", !.locator = precise,
                                 !.ops = @ \o <<Made(precise),
                                                Op("count", precise, Pending)>>]
         ELSE [g EXCEPT !.pc = "recount",
                        !.ops = @ \o <<Op("count", g.locator, Pending)>>]
    ELSE NotFound(g)

CountDone(r) ==
    /\ process = "listening"
    /\ handler[r].pc = "count"
    /\ \E outcome \in CountOutcomes :
         handler' = [handler EXCEPT ![r] =
            LET h == [@ EXCEPT !.ops = Settle(@, outcome)] IN
            IF outcome.threw
            THEN ClickCatch(h, "count", Exception(outcome.name, "engine"))
            ELSE AfterCount(h, outcome.value)]
    /\ UNCHANGED <<process, browser, context, page, launched, closed>>

\* /click/text, line 243: the second count().
AfterRecount(g, n) ==
    IF n = 0 THEN NotFound(g) ELSE BeginClick(g)

RecountDone(r) ==
    /\ process = "listening"
    /\ handler[r].pc = "recount"
    /\ \E outcome \in CountOutcomes :
         handler' = [handler EXCEPT ![r] =
            LET h == [@ EXCEPT !.ops = Settle(@, outcome)] IN
            IF outcome.threw
            THEN ClickCatch(h, "count", Exception(outcome.name, "engine"))
            ELSE AfterRecount(h, outcome.value)]
    /\ UNCHANGED <<process, browser, context, page, launched, closed>>

\* AfterClick with a failed first click attempted once more.
AfterClickRetriesOnce(h, outcome) ==
    LET g == [h EXCEPT !.ops = Settle(@, outcome)] IN
    IF outcome.threw
    THEN IF Cardinality({i \in 1..Len(h.ops) : h.ops[i].op = "click"}) = 1
         THEN [g EXCEPT !.ops = @ \o <<Op("click", First(h.locator), Pending)>>]
         ELSE ClickCatch(g, "click", Exception(outcome.name, "engine"))
    ELSE Respond(g, 200, "none", "none")

\* What a click handler does when click() has returned or thrown.
AfterClick(h, outcome) ==
    LET g == [h EXCEPT !.ops = Settle(@, outcome)] IN
    IF outcome.threw
    THEN ClickCatch(g, "click", Exception(outcome.name, "engine"))
    ELSE Respond(g, 200, "none", "none")

\* ClickDone with a failed click invalidating the page.
ClickDoneDropsPage(r) ==
    /\ process = "listening"
    /\ handler[r].pc = "click"
    /\ \E outcome \in Outcomes("click") :
         /\ handler' = [handler EXCEPT ![r] = AfterClick(@, outcome)]
         /\ page' = IF outcome.threw THEN NoPage ELSE page
    /\ UNCHANGED <<process, browser, context, launched, closed>>

\* click() returns or throws (lines 186-193, 207-214, 245-252, 286-297).
ClickDone(r) ==
    /\ process = "listening"
    /\ handler[r].pc = "click"
    /\ \E outcome \in Outcomes("click") :
         handler' = [handler EXCEPT ![r] = AfterClick(@, outcome)]
    /\ UNCHANGED <<process, browser, context, page, launched, closed>>

-----------------------------------------------------------------------------
(* /set-url and /enter-keyboard *)

\* /set-url from its first line to its first await (lines 152-162).
SetUrlEntry(h) ==
    IF ~Truthy(h.body.field) \/ ~IsString(h.body.field)
    THEN Respond(h, 400, "Missing or invalid navigate_url in request body", "none")
    ELSE IF page = NoPage
    THEN Respond(h, 500, "Playwright page is not initialized yet.", "none")
    ELSE [h EXCEPT !.pc = "goto", !.ops = @ \o <<Op("goto", PageRoot(page), Pending)>>]

\* /enter-keyboard from its first line to its first await (lines 303-308).
EnterKeyboardEntry(h) ==
    IF ~Truthy(h.body.field) \/ ~IsString(h.body.field)
    THEN Respond(h, 400, "Missing or invalid enter_value in request body", "none")
    ELSE IF page = NoPage
    THEN Respond(h, 500, "Playwright page is not initialized yet.", "none")
    ELSE [h EXCEPT !.pc = "press", !.ops = @ \o <<Op("press", PageRoot(page), Pending)>>]

ReceiveSetUrl(r) ==
    /\ process = "listening"
    /\ handler[r].pc = "idle"
    /\ \E body \in Bodies("/set-url") :
         handler' = [handler EXCEPT ![r] =
            SetUrlEntry([Idle EXCEPT !.endpoint = "/set-url", !.body = body,
                                     !.pageAtEntry = page])]
    /\ UNCHANGED <<process, browser, context, page, launched, closed>>

ReceiveEnterKeyboard(r) ==
    /\ process = "listening"
    /\ handler[r].pc = "idle"
    /\ \E body \in Bodies("/enter-keyboard") :
         handler' = [handler EXCEPT ![r] =
            EnterKeyboardEntry([Idle EXCEPT !.endpoint = "/enter-keyboard",
                                            !.body = body, !.pageAtEntry = page])]
    /\ UNCHANGED <<process, browser, context, page, launched, closed>>

\* SetUrlCatch without the details field.
SetUrlCatchNoDetails(h, call, error) ==
    Respond([h EXCEPT !.thrownBy = call, !.caught = error],
            500, "Failed to navigate", "none")

\* The catch block of /set-url (lines 168-171).
SetUrlCatch(h, call, error) ==
    Respond([h EXCEPT !.thrownBy = call, !.caught = error],
            500, "Failed to navigate", error.message)

\* A call on the global page inside /set-url's try block: a TypeError when
\* the page is null, else the call is started.
SetUrlCall(h, call, pc) ==
    IF page = NoPage
    THEN SetUrlCatch(h, "page", Exception("TypeError", "null"))
    ELSE [h EXCEPT !.pc = pc, !.ops = @ \o <<Op(call, PageRoot(page), Pending)>>]

\* page.goto returns or throws (lines 162-164).
GotoDone(r) ==
    /\ process = "listening"
    /\ handler[r].pc = "goto"
    /\ \E outcome \in Outcomes("goto") :
         handler' = [handler EXCEPT ![r] =
            LET h == [@ EXCEPT !.ops = Settle(@, outcome)] IN
            IF outcome.threw
            THEN SetUrlCatch(h, "goto", Exception(outcome.name, "engine"))
            ELSE SetUrlCall(h, "title", "title")]
    /\ UNCHANGED <<process, browser, context, page, launched, closed>>

\* page.title returns or throws (lines 164-166).
TitleDone(r) ==
    /\ process = "listening"
    /\ handler[r].pc = "title"
    /\ \E outcome \in Outcomes("title") :
         handler' = [handler EXCEPT ![r] =
            LET h == [@ EXCEPT !.ops = Settle(@, outcome)] IN
            IF outcome.threw
            THEN SetUrlCatch(h, "title", Exception(outcome.name, "engine"))
            ELSE SetUrlCall(h, "bringToFront", "front")]
    /\ UNCHANGED <<process, browser, context, page, launched, closed>>

\* page.bringToFront returns or throws (lines 166-167).
FrontDone(r) ==
    /\ process = "listening"
    /\ handler[r].pc = "front"
    /\ \E outcome \in Outcomes("bringToFront") :
         handler' = [handler EXCEPT ![r] =
            LET h == [@ EXCEPT !.ops = Settle(@, outcome)] IN
            IF outcome.threw
            THEN SetUrlCatch(h, "bringToFront", Exception(outcome.name, "engine"))
            ELSE Respond(h, 200, "none", "page_title")]
    /\ UNCHANGED <<process, browser, context, page, launched, closed>>

\* page.keyboard.press returns or throws (lines 308-314).
PressDone(r) ==
    /\ process = "listening"
    /\ handler[r].pc = "press"
    /\ \E outcome \in Outcomes("press") :
         handler' = [handler EXCEPT ![r] =
            LET h == [@ EXCEPT !.ops = Settle(@, outcome)] IN
            IF outcome.threw
            THEN Respond([h EXCEPT !.thrownBy = "press",
                                   !.caught = Exception(outcome.name, "engine")],
                         500, "Failed to type value", "engine")
            ELSE Respond(h, 200, "none", "none")]
    /\ UNCHANGED <<process, browser, context, page, launched, closed>>

-----------------------------------------------------------------------------
(* initializePlaywright and /restart-browser *)

\* The handlers that have yet to launch a browser.
AboutToLaunch == {h \in Handlers : handler[h].pc \in {"closing", "launch"}}

\* /restart-browser from its first line to its first await (lines 329-338,
\* 350-352): it starts closing the global browser if there is one, else it
\* starts launching a new one.
ReceiveRestart(r) ==
    /\ process = "listening"
    /\ handler[r].pc = "idle"
    /\ launched + Cardinality(AboutToLaunch) < MaxLaunch
    /\ handler' = [handler EXCEPT ![r] =
          [Idle EXCEPT !.endpoint = "/restart-browser",
                       !.own = browser,
                       !.pc = IF browser # NoBrowser THEN "closing" ELSE "launch"]]
    /\ UNCHANGED <<process, browser, context, page, launched, closed>>

\* browser.close() returns: the three globals are set to null and
\* initializePlaywright starts the launch (lines 331-338); or it throws and
\* the handler answers 500 (lines 341-344).
CloseDone(r) ==
    /\ process = "listening"
    /\ handler[r].pc = "closing"
    /\ \E outcome \in Outcomes("close") :
         IF outcome.threw
         THEN /\ handler' = [handler EXCEPT ![r] =
                    Respond([@ EXCEPT !.thrownBy = "close",
                                      !.caught = Exception(outcome.name, "engine")],
                            500, "Failed to restart browser", "engine")]
              /\ UNCHANGED <<browser, context, page, closed>>
         ELSE /\ closed' = closed \cup {handler[r].own}
              /\ browser' = NoBrowser
              /\ context' = NoBrowser
              /\ page' = NoPage
              /\ handler' = [handler EXCEPT ![r] =
                    [@ EXCEPT !.pc = "launch", !.own = NoBrowser]]
    /\ UNCHANGED <<process, launched>>

\* process.exit(1) ends every handler that has not answered yet: nothing of
\* it is left but the request it was handling.
Killed(h) ==
    IF h.pc \in {"idle", "done"} THEN h
    ELSE [Idle EXCEPT !.endpoint = h.endpoint, !.pc = "killed",
                      !.pageAtEntry = h.pageAtEntry]

\* The catch block of initializePlaywright (lines 357-360): process.exit(1).
\* chromium.launch returns a new browser, which is assigned to the global
\* browser, and newContext is started on it (lines 352-353); or it throws.
LaunchDone(h) ==
    /\ process # "exited"
    /\ handler[h].pc = "launch"
    /\ launched < MaxLaunch
    /\ \E outcome \in Outcomes("launch") :
         IF outcome.threw
         THEN /\ process' = "exited"
              /\ handler' = [g \in Handlers |-> Killed(handler[g])]
              /\ UNCHANGED <<browser, launched>>
         ELSE /\ launched' = launched + 1
              /\ browser' = launched + 1
              /\ handler' = [handler EXCEPT ![h] =
                    [@ EXCEPT !.pc = "newContext", !.own = launched + 1]]
              /\ UNCHANGED process
    /\ UNCHANGED <<context, page, closed>>

\* browser.newContext returns a context, which is assigned to the global
\* context, and newPage is started on it (lines 353-354); or it throws.
NewContextDone(h) ==
    /\ process # "exited"
    /\ handler[h].pc = "newContext"
    /\ \E outcome \in Outcomes("newContext") :
         IF outcome.threw
         THEN /\ process' = "exited"
              /\ handler' = [g \in Handlers |-> Killed(handler[g])]
              /\ UNCHANGED context
         ELSE /\ context' = handler[h].own
              /\ handler' = [handler EXCEPT ![h] = [@ EXCEPT !.pc = "newPage"]]
              /\ UNCHANGED process
    /\ UNCHANGED <<browser, page, launched, closed>>

\* context.newPage returns a page, which is assigned to the global page, and
\* bringToFront is started on it (lines 354-355); or it throws.
NewPageDone(h) ==
    /\ process # "exited"
    /\ handler[h].pc = "newPage"
    /\ \E outcome \in Outcomes("newPage") :
         IF outcome.threw
         THEN /\ process' = "exited"
              /\ handler' = [g \in Handlers |-> Killed(handler[g])]
              /\ UNCHANGED page
         ELSE /\ page' = handler[h].own
              /\ handler' = [handler EXCEPT ![h] =
                    [@ EXCEPT !.pc = "bringToFront",
                              !.ops = @ \o <<Op("bringToFront",
                                                PageRoot(handler[h].own), Pending)>>]]
              /\ UNCHANGED process
    /\ UNCHANGED <<browser, context, launched, closed>>

\* page.bringToFront returns and initializePlaywright returns: startServer
\* starts listening (lines 364-365), /restart-browser answers 200 (line 340);
\* or it throws.
BringToFrontDone(h) ==
    /\ process # "exited"
    /\ handler[h].pc = "bringToFront"
    /\ \E outcome \in Outcomes("bringToFront") :
         IF outcome.threw
         THEN /\ process' = "exited"
              /\ handler' = [g \in Handlers |-> Killed(handler[g])]
         ELSE IF handler[h].endpoint = "startServer"
         THEN /\ process' = "listening"
              /\ handler' = [handler EXCEPT ![h] = [@ EXCEPT !.pc = "done"]]
         ELSE /\ handler' = [handler EXCEPT ![h] = Respond(@, 200, "none", "none")]
              /\ UNCHANGED process
    /\ UNCHANGED <<browser, context, page, launched, closed>>

\* The response has been sent; the next request may arrive.
Finish(r) ==
    /\ process = "listening"
    /\ handler[r].pc = "done"
    /\ handler' = [handler EXCEPT ![r] = Idle]
    /\ UNCHANGED <<process, browser, context, page, launched, closed>>

-----------------------------------------------------------------------------
(* The server: specification *)

\* Init with app.listen called before initializePlaywright has completed.
InitListening ==
    /\ process = "listening"
    /\ browser = NoBrowser
    /\ context = NoBrowser
    /\ page = NoPage
    /\ launched = 0
    /\ closed = {}
    /\ handler = [h \in Handlers |->
                    IF h = 0
                    THEN [Idle EXCEPT !.endpoint = "startServer", !.pc = "launch"]
                    ELSE Idle]

\* node runs the module: the globals are null (lines 7-9) and startServer
\* has called initializePlaywright, which has started the launch (line 389).
Init ==
    /\ process = "starting"
    /\ browser = NoBrowser
    /\ context = NoBrowser
    /\ page = NoPage
    /\ launched = 0
    /\ closed = {}
    /\ handler = [h \in Handlers |->
                    IF h = 0
                    THEN [Idle EXCEPT !.endpoint = "startServer", !.pc = "launch"]
                    ELSE Idle]

Next ==
    \/ \E h \in Handlers :
         \/ LaunchDone(h)
         \/ NewContextDone(h)
         \/ NewPageDone(h)
         \/ BringToFrontDone(h)
    \/ \E r \in PageRequests :
         \/ ReceiveClick(r)
         \/ NetworkIdleDone(r)
         \/ SettleDone(r)
         \/ Resolve(r)
         \/ CountDone(r)
         \/ RecountDone(r)
         \/ ClickDone(r)
         \/ ReceiveSetUrl(r)
         \/ GotoDone(r)
         \/ TitleDone(r)
         \/ FrontDone(r)
         \/ ReceiveEnterKeyboard(r)
         \/ PressDone(r)
    \/ \E r \in Requests :
         \/ ReceiveRestart(r)
         \/ CloseDone(r)
         \/ Finish(r)

Spec == Init /\ [][Next]_vars

\* Every awaited engine call returns or throws, and the synchronous code
\* that follows an await runs: a handler that waits for a call is resumed.
EngineCallsSettle ==
    /\ \A h \in Handlers :
          /\ WF_vars(LaunchDone(h))
          /\ WF_vars(NewContextDone(h))
          /\ WF_vars(NewPageDone(h))
          /\ WF_vars(BringToFrontDone(h))
    /\ \A r \in PageRequests :
          /\ WF_vars(NetworkIdleDone(r))
          /\ WF_vars(SettleDone(r))
          /\ WF_vars(Resolve(r))
          /\ WF_vars(CountDone(r))
          /\ WF_vars(RecountDone(r))
          /\ WF_vars(ClickDone(r))
          /\ WF_vars(GotoDone(r))
          /\ WF_vars(TitleDone(r))
          /\ WF_vars(FrontDone(r))
          /\ WF_vars(PressDone(r))
    /\ \A r \in Requests : WF_vars(CloseDone(r))

\* The server with every engine call settling.
SpecFair == Init /\ [][Next]_vars /\ EngineCallsSettle

-----------------------------------------------------------------------------
(* The resolution of custom selectors: specification *)

\* The segments custom selectors are made of: a tag, each recognized key,
\* a key with an empty value, a class list without a class, a key that is
\* not recognized, the key under which the parser keeps the tag and a
\* segment without a key.
Segments ==
    { <<"div">>,
      <<"closestId", "=", "a">>,
      <<"id", "=", "a">>,
      <<"id", "=">>,
      <<"data-testid", "=", "a">>,
      <<"data-cy", "=", "a">>,
      <<"data-qa", "=", "a">>,
      <<"role", "=", "a">>,
      <<"aria-label", "=", "b">>,
      <<"text", "=", "c">>,
      <<"name", "=", "a">>,
      <<"classes", "=", "a", ",", " ", "b">>,
      <<"classes", "=", ",">>,
      <<"foo", "=", "b">>,
      <<"tagFromSelector", "=", "span">>,
      <<"=", "a">> }

\* The largest number of segments of a selector.
MaxSegments == 3

RECURSIVE Join(_)
Join(segments) ==
    IF Len(segments) = 0 THEN emptyString
    ELSE IF Len(segments) = 1 THEN segments[1]
    ELSE segments[1] \o <<";">> \o Join(Tail(segments))

Selectors ==
    {Join(q) : q \in UNION {[1..n -> Segments] : n \in 1..MaxSegments}}

\* A /click/custom request whose performPreClickWaits has just returned, on
\* a server whose startup session is in place.
InitResolve ==
    /\ process = "listening"
    /\ browser = 1
    /\ context = 1
    /\ page = 1
    /\ launched = 1
    /\ closed = {}
    /\ \E customSelector \in Selectors, tagName \in {undefined, Str("span")} :
         handler = [h \in Handlers |->
            IF h = 1
            THEN [Idle EXCEPT
                    !.endpoint = "/click/custom",
                    !.body = Body(customSelector, tagName),
                    !.pageAtEntry = 1,
                    !.pc = "resolve",
                    !.ops = <<Op("waitForLoadState", PageRoot(1), Returned(0)),
                              Op("waitForTimeout", PageRoot(1), Returned(0))>>]
            ELSE IF h = 0
            THEN [Idle EXCEPT !.endpoint = "startServer", !.pc = "done", !.own = 1]
            ELSE Idle]

NextResolve == \E r \in PageRequests : Resolve(r)

SpecResolve == InitResolve /\ [][NextResolve]_vars

-----------------------------------------------------------------------------
(* The resolution of selectors with empty values: specification *)

\* Each key of the priority chain with a value and with none, and the keys
\* of the anchor and of the CSS rule with none.  "id=" is parsed (lines
\* 49-53) to the key id with the value "".
EmptyValueSegments ==
    { <<"id", "=", "a">>,           <<"id", "=">>,
      <<"data-testid", "=", "a">>,  <<"data-testid", "=">>,
      <<"data-cy", "=", "a">>,      <<"data-cy", "=">>,
      <<"data-qa", "=", "a">>,      <<"data-qa", "=">>,
      <<"role", "=", "a">>,         <<"role", "=">>,
      <<"aria-label", "=", "b">>,   <<"aria-label", "=">>,
      <<"text", "=", "c">>,         <<"text", "=">>,
      <<"closestId", "=">>,
      <<"name", "=">>,
      <<"classes", "=">> }

EmptyValueSelectors ==
    {Join(q) : q \in UNION {[1..n -> EmptyValueSegments] : n \in 1..MaxSegments}}

\* A /click/custom request whose performPreClickWaits has just returned, on
\* a server whose startup session is in place.
InitEmptyValues ==
    /\ process = "listening"
    /\ browser = 1
    /\ context = 1
    /\ page = 1
    /\ launched = 1
    /\ closed = {}
    /\ \E customSelector \in EmptyValueSelectors, tagName \in {undefined, Str("span")} :
         handler = [h \in Handlers |->
            IF h = 1
            THEN [Idle EXCEPT
                    !.endpoint = "/click/custom",
                    !.body = Body(customSelector, tagName),
                    !.pageAtEntry = 1,
                    !.pc = "resolve",
                    !.ops = <<Op("waitForLoadState", PageRoot(1), Returned(0)),
                              Op("waitForTimeout", PageRoot(1), Returned(0))>>]
            ELSE IF h = 0
            THEN [Idle EXCEPT !.endpoint = "startServer", !.pc = "done", !.own = 1]
            ELSE Idle]

NextEmptyValues == \E r \in PageRequests : Resolve(r)

SpecEmptyValues == InitEmptyValues /\ [][NextEmptyValues]_vars

-----------------------------------------------------------------------------
(* The parser: specification *)

\* The characters parseCustomSelector looks at and two words.
ParseTokens == {";", "=", " ", "k", "v"}

\* The largest length of a selector given to the parser.
MaxChars == 6

ParseInputs == UNION {[1..n -> ParseTokens] : n \in 1..MaxChars}

\* A /click/custom request with any non-empty string as its customSelector,
\* about to parse it (line 272).
InitParse ==
    /\ process = "listening"
    /\ browser = 1
    /\ context = 1
    /\ page = 1
    /\ launched = 1
    /\ closed = {}
    /\ \E customSelector \in ParseInputs :
         handler = [h \in Handlers |->
            IF h = 1
            THEN [Idle EXCEPT
                    !.endpoint = "/click/custom",
                    !.body = Body(customSelector, undefined),
                    !.pageAtEntry = 1,
                    !.pc = "resolve",
                    !.ops = <<Op("waitForLoadState", PageRoot(1), Returned(0)),
                              Op("waitForTimeout", PageRoot(1), Returned(0))>>]
            ELSE IF h = 0
            THEN [Idle EXCEPT !.endpoint = "startServer", !.pc = "done", !.own = 1]
            ELSE Idle]

NextParse == \E r \in PageRequests : Resolve(r)

SpecParse == InitParse /\ [][NextParse]_vars

-----------------------------------------------------------------------------
(* Properties of the handlers *)

\* The positions in h.ops of the calls named `call`.
Calls(h, call) == {i \in 1..Len(h.ops) : h.ops[i].op = call}

\* The count() calls whose result decides between 404 and the click: the
\* calls a click handler made on its final locator, the last of which is the
\* final count.  In /click/text a first count of zero decides nothing: the
\* handler counts again (line 243), on the locator it may have replaced.
FinalCounts(h) ==
    LET counts == Calls(h, "count") IN
    {i \in counts :
        /\ h.ops[i].target = h.locator
        /\ (h.endpoint = "/click/text" /\ h.ops[i].result = Returned(0)) =>
              \E j \in counts : j < i}

HasFinalCount(h) == h.locator # undefinedLocator /\ FinalCounts(h) # {}

FinalCount(h) ==
    LET counts == FinalCounts(h) IN
    h.ops[CHOOSE i \in counts : \A j \in counts : j <= i].result

\* The errors buildPlaywrightLocator throws when it cannot resolve a selector.
ResolutionErrors == {"AnchorNotFound", "OnlyClosestId", "NoValidLocator"}

ResolutionFailed(h) ==
    /\ h.endpoint = "/click/custom"
    /\ h.pc = "done"
    /\ h.thrownBy = "buildPlaywrightLocator"
    /\ h.caught.name = "Error"
    /\ h.caught.message \in ResolutionErrors

\* C1: every /click/custom request whose selector resolution fails (anchor
\* not found, only a closestId given, no strategy) is answered with 400.
C1_ResolutionFailureIs400 ==
    \A r \in PageRequests :
        ResolutionFailed(handler[r]) => handler[r].response.status = 400

\* C2: the process terminates only when the initial session creation of
\* startServer fails, never when a relaunch of /restart-browser fails.
C2_OnlyStartupFailureExits ==
    process = "exited" => handler[0].pc # "done"

\* C3: in every click endpoint, a final match count of zero is answered 404
\* and no click is made; a positive count makes exactly one click, on the
\* first match of the final locator, and a click that returns is answered 200.
C3_CountDecidesClick ==
    \A r \in PageRequests :
        LET h     == handler[r]
            final == FinalCount(h)
        IN
        (h.endpoint \in ClickEndpoints /\ HasFinalCount(h)) =>
            /\ final = Returned(0) =>
                  /\ h.pc = "done"
                  /\ h.response.status = 404
                  /\ Calls(h, "click") = {}
            /\ (~final.threw /\ final.value > 0) =>
                  /\ Calls(h, "click") = {Len(h.ops)}
                  /\ h.ops[Len(h.ops)].target = First(h.locator)
                  /\ h.pc \in {"click", "done"}
                  /\ h.ops[Len(h.ops)].result.name = "returned" =>
                        h.pc = "done" /\ h.response.status = 200
            /\ h.response.status \in {200, 404} =>
                  ~final.threw /\ final # Pending

C3_Witness ==
    \E r \in PageRequests :
        LET h == handler[r] IN
        /\ h.endpoint = "/click/custom"
        /\ HasFinalCount(h)
        /\ FinalCount(h) = Returned(0)
        /\ h.response.status = 404
        /\ Calls(h, "click") = {}

\* C4: in every click endpoint, a click that times out is answered 408 and a
\* click that fails otherwise is answered 500.
C4_ClickErrorStatus ==
    \A r \in PageRequests :
        LET h == handler[r] IN
        (/\ h.endpoint \in ClickEndpoints
         /\ Calls(h, "click") # {}
         /\ h.ops[Len(h.ops)].result.threw) =>
            /\ h.pc = "done"
            /\ h.ops[Len(h.ops)].op = "click"
            /\ h.response.status =
                  IF h.ops[Len(h.ops)].result.name = "TimeoutError" THEN 408 ELSE 500

C4_Witness ==
    \E r \in PageRequests :
        LET h == handler[r] IN
        /\ h.endpoint = "/click/xpath"
        /\ Calls(h, "click") # {}
        /\ h.ops[Len(h.ops)].result = Threw("TimeoutError")
        /\ h.response.status = 408

\* A request that was handled while the global page was null.
HandledWithoutPage(h) ==
    h.endpoint \in PageEndpoints /\ h.pc # "idle" /\ h.pageAtEntry = NoPage

\* C5 as stated: every request to a page endpoint handled while no page
\* exists is answered 500, whatever its body.
C5_NoPageIs500 ==
    \A r \in PageRequests :
        HandledWithoutPage(handler[r]) =>
            handler[r].pc = "done" /\ handler[r].response.status = 500

\* C5 amended: handled while no page exists, a request to a click endpoint is
\* answered 500 whatever its body; a request to /set-url or /enter-keyboard
\* is answered 400 when its field is missing, not a string or empty, and 500
\* otherwise.
C5_NoPageIs500UnlessBodyCheckedFirst ==
    \A r \in PageRequests :
        LET h == handler[r] IN
        HandledWithoutPage(h) =>
            /\ h.pc = "done"
            /\ h.ops = <<>>
            /\ h.response.status =
                  IF /\ h.endpoint \in {"/set-url", "/enter-keyboard"}
                     /\ (h.body.field \in {undefined, emptyString, nonString})
                  THEN 400 ELSE 500

C5_Witness ==
    \E r \in PageRequests :
        LET h == handler[r] IN
        /\ HandledWithoutPage(h)
        /\ h.endpoint = "/click/css"
        /\ h.body.field = undefined
        /\ h.response.status = 500

\* C6: with a page present, performPreClickWaits never fails its caller: no
\* handler catches an exception of the network-idle wait or of the settle
\* delay.
C6_PreClickWaitsNeverFail ==
    \A r \in PageRequests :
        LET h == handler[r] IN
        (h.endpoint \in ClickEndpoints /\ h.pageAtEntry # NoPage) =>
            /\ h.thrownBy \notin {"performPreClickWaits", "waitForLoadState",
                                  "waitForTimeout"}
            /\ \A i \in Calls(h, "waitForTimeout") :
                  (h.ops[i].result.threw /\ h.pc = "done") =>
                      h.response.status \notin {408, 500}

-----------------------------------------------------------------------------
(* Properties of the resolution *)

\* A /click/custom handler that has run buildPlaywrightLocator.
Resolved(h) ==
    /\ h.endpoint = "/click/custom"
    /\ h.pc \in {"count", "click", "done"}
    /\ Len(h.ops) >= 2
    /\ h.ops[2].result = Returned(0)

ParsedOf(h) == h.parsedAttributes

\* The page buildPlaywrightLocator ran on: its locators are rooted in it.
HasAnchor(h) == Truthy(Get(ParsedOf(h), "closestId"))

\* With a closestId, the third and fourth calls of the handler are the
\* anchor's locator() and count().
AnchorCount(h) == h.ops[4].result

AnchorFound(h) ==
    HasAnchor(h) => (Len(h.ops) >= 4 /\ ~AnchorCount(h).threw /\ AnchorCount(h).value > 0)

\* The priority chain of the specification.
PriorityKeys ==
    <<"id", "data-testid", "data-cy", "data-qa", "role", "aria-label", "text">>

PresentKeys(attributes) ==
    {i \in 1..Len(PriorityKeys) : Truthy(Get(attributes, PriorityKeys[i]))}

ExpectedRule(attributes, tag) ==
    IF PresentKeys(attributes) # {}
    THEN CHOOSE i \in PresentKeys(attributes) : \A j \in PresentKeys(attributes) : i <= j
    ELSE IF tag # Star \/ Truthy(Get(attributes, "name")) \/ Truthy(Get(attributes, "classes"))
    THEN 8
    ELSE 0

Tokens(string) == {string[i] : i \in 1..Len(string)}

\* The rule a locator is the strategy of, read off the locator itself.
RuleOfLocator(l) ==
    CASE l.via = "getByRole" -> 5
      [] l.via = "getByLabel" -> 6
      [] l.via \in {"getByText", "filter"} -> 7
      [] l.via = "locator" /\ l.arg # <<>> /\ l.arg[1] = "#" -> 1
      [] l.via = "locator" /\ "data-testid" \in Tokens(l.arg) -> 2
      [] l.via = "locator" /\ "data-cy" \in Tokens(l.arg) -> 3
      [] l.via = "locator" /\ "data-qa" \in Tokens(l.arg) -> 4
      [] OTHER -> 8

\* C7: the strategy is that of the first rule, in the order id, data-testid,
\* data-cy, data-qa, role, aria-label, text, tag/name/classes, whose key is
\* present (holds a non-empty value); with id and data-testid both present
\* it is the lookup by id.
C7_FirstPresentRuleWins ==
    \A r \in PageRequests :
        LET h     == handler[r]
            attrs == ParsedOf(h)
            tag   == EffectiveTag(attrs, h.body.tagName)
            rule  == ExpectedRule(attrs, tag)
        IN  (Resolved(h) /\ AnchorFound(h) /\ h.caught.name # "TypeError") =>
               /\ h.rule = rule
               /\ h.locator # undefinedLocator => RuleOfLocator(h.locator) = rule
               /\ rule \in 1..6 => h.locator # undefinedLocator
               /\ (rule = 7 /\ h.caught.message # "engine") => h.locator # undefinedLocator
               /\ rule = 0 => h.locator = undefinedLocator
               /\ (Truthy(Get(attrs, "id")) /\ Truthy(Get(attrs, "data-testid"))) =>
                     /\ h.locator.via = "locator"
                     /\ h.locator.arg = IdSelector(Get(attrs, "id"))

C7_Witness ==
    \E r \in PageRequests :
        LET h == handler[r] IN
        /\ Resolved(h)
        /\ Truthy(Get(ParsedOf(h), "id"))
        /\ Truthy(Get(ParsedOf(h), "data-testid"))
        /\ h.locator # undefinedLocator
        /\ h.rule = 1

\* C8: when the closestId anchor has no match, resolution fails with the
\* anchor-not-found error, whatever other attributes are present, and the
\* only calls it has made are the anchor's locator() and count().
C8_AnchorNotFoundFirst ==
    \A r \in PageRequests :
        LET h       == handler[r]
            anchor  == Locate(PageRoot(h.pageAtEntry),
                              IdSelector(Get(ParsedOf(h), "closestId")))
        IN  (/\ Resolved(h)
             /\ HasAnchor(h)
             /\ Len(h.ops) >= 4
             /\ AnchorCount(h) = Returned(0)) =>
               /\ h.pc = "done"
               /\ h.thrownBy = "buildPlaywrightLocator"
               /\ h.caught = Exception("Error", "AnchorNotFound")
               /\ h.locator = undefinedLocator
               /\ SubSeq(h.ops, 3, Len(h.ops))
                     = <<Made(anchor), Op("count", anchor, Returned(0))>>

C8_Witness ==
    \E r \in PageRequests :
        LET h == handler[r] IN
        /\ Resolved(h)
        /\ HasAnchor(h)
        /\ Truthy(Get(ParsedOf(h), "id"))
        /\ Len(h.ops) >= 4
        /\ AnchorCount(h) = Returned(0)
        /\ h.caught.message = "AnchorNotFound"

\* C9: with no tag hint and no fallback tag, a selector with only a closestId
\* whose anchor exists fails with the only-closestId error and a selector
\* without any attribute fails with the no-valid-locator error.
C9_UnderspecifiedIsNotNoStrategy ==
    \A r \in PageRequests :
        LET h     == handler[r]
            attrs == ParsedOf(h)
        IN  (Resolved(h) /\ ~Truthy(h.body.tagName)) =>
               /\ (DOMAIN attrs = {Str("closestId")} /\ HasAnchor(h) /\ AnchorFound(h)) =>
                     /\ h.pc = "done"
                     /\ h.thrownBy = "buildPlaywrightLocator"
                     /\ h.caught = Exception("Error", "OnlyClosestId")
               /\ DOMAIN attrs = {} =>
                     /\ h.pc = "done"
                     /\ h.thrownBy = "buildPlaywrightLocator"
                     /\ h.caught = Exception("Error", "NoValidLocator")

C9_Witness ==
    \E r \in PageRequests :
        LET h == handler[r] IN
        /\ Resolved(h)
        /\ ~Truthy(h.body.tagName)
        /\ DOMAIN ParsedOf(h) = {Str("closestId")}
        /\ AnchorFound(h)
        /\ h.caught.message = "OnlyClosestId"

\* The keys the specification lists as recognized.
RecognizedKeys ==
    {"closestId", "id", "data-testid", "data-cy", "data-qa", "role", "text",
     "aria-label", "name", "classes"}

\* The key=value segments of the model whose key is not recognized.
UnknownSegments ==
    {s \in Segments : Len(s) >= 3 /\ s[2] = "=" /\ s[1] \notin RecognizedKeys}

\* C10: adding a key=value segment whose key is not recognized changes
\* neither the strategy resolution produces nor the error it fails with,
\* whatever the counts of the page are.
C10_UnknownKeysInert ==
    \A r \in PageRequests :
        LET h == handler[r] IN
        h.endpoint = "/click/custom" =>
            \A u \in UnknownSegments :
            \A anchorCount \in CountOutcomes, specificCount \in CountOutcomes :
                LET without == buildPlaywrightLocator(
                                  h.pageAtEntry, parseCustomSelector(h.body.field),
                                  h.body.tagName, anchorCount, specificCount)
                    with    == buildPlaywrightLocator(
                                  h.pageAtEntry,
                                  parseCustomSelector(h.body.field \o <<";">> \o u),
                                  h.body.tagName, anchorCount, specificCount)
                IN  with.locator = without.locator /\ with.error = without.error

-----------------------------------------------------------------------------
(* Properties of the text rule *)

\* The count() calls of line 104: those a /click/custom handler made on a
\* tag-scoped text lookup.
SpecificCounts(h) ==
    LET counts == Calls(h, "count") IN
    {i \in counts :
        /\ h.ops[i].target.via = "filter"
        /\ \A j \in counts : j < i => h.ops[j].target.via # "filter"}

\* C11: when text is present, no higher-priority key is present and the
\* effective tag is not the wildcard, a tag-scoped text lookup with zero
\* matches makes resolution return the untagged text lookup on the same
\* scope without failing; when that lookup has zero matches too, the
\* handler answers 404 and has caught no error.
C11_TextFallsBackThen404 ==
    \A r \in PageRequests :
        LET h     == handler[r]
            attrs == ParsedOf(h)
            tag   == EffectiveTag(attrs, h.body.tagName)
        IN  (/\ Resolved(h)
             /\ Truthy(Get(attrs, "text"))
             /\ tag # Star
             /\ ExpectedRule(attrs, tag) = 7
             /\ AnchorFound(h)
             /\ h.thrownBy # "buildPlaywrightLocator" \/ h.caught.name # "TypeError") =>
               /\ SpecificCounts(h) # {}
               /\ \A i \in SpecificCounts(h) :
                     LET scope == h.ops[i].target.on.on
                         broad == GetByText(scope, Get(attrs, "text"))
                     IN  /\ HasAnchor(h) => scope = h.ops[3].target
                         /\ ~HasAnchor(h) => scope.via = "page"
                         /\ h.ops[i].result = Returned(0) =>
                               /\ h.thrownBy # "buildPlaywrightLocator"
                               /\ h.locator = broad
                               /\ h.ops[i + 1] = Made(broad)
                               /\ h.ops[i + 2].op = "count"
                               /\ h.ops[i + 2].target = broad
                               /\ h.ops[i + 2].result = Returned(0) =>
                                     /\ h.pc = "done"
                                     /\ h.response.status = 404
                                     /\ h.caught = NoException

C11_Witness ==
    \E r \in PageRequests :
        LET h == handler[r] IN
        /\ Resolved(h)
        /\ HasAnchor(h)
        /\ \E i \in SpecificCounts(h) :
              /\ h.ops[i].result = Returned(0)
              /\ h.ops[i].target.on.on = h.ops[3].target
              /\ Len(h.ops) = i + 2
              /\ h.ops[i + 2].result = Returned(0)
        /\ h.locator.via = "getByText"
        /\ h.response.status = 404

-----------------------------------------------------------------------------
(* Properties of the session *)

\* A /restart-browser handler, or startServer, is between its first line and
\* its response.
SessionChangeInFlight ==
    \E h \in Handlers :
        handler[h].pc \in {"closing", "launch", "newContext", "newPage", "bringToFront"}

\* The browsers that were launched, were not closed and are not the global
\* browser.
UnreferencedBrowsers == {b \in 1..launched : b # browser /\ b \notin closed}

\* C12: after any sequence and any interleaving of /restart-browser
\* requests, every browser that was launched and is not the current one has
\* been closed.
C12_OneBrowserSession ==
    (process = "listening" /\ ~SessionChangeInFlight) => UnreferencedBrowsers = {}

\* A step of a navigate, click or key-press handler, or the end of one.
PageHandlerStep ==
    \E r \in Requests :
        /\ handler'[r] # handler[r]
        /\ handler[r].endpoint \in PageEndpoints \/ handler'[r].endpoint \in PageEndpoints

\* C13: no step of a navigate, click or key-press handler assigns the shared
\* browser, context or page, whatever path the handler takes; only startup
\* and /restart-browser replace the session.
C13_PageHandlersKeepSession ==
    [][PageHandlerStep => UNCHANGED <<browser, context, page>>]_vars

C13_Witness ==
    \E r \in PageRequests :
        LET h == handler[r] IN
        /\ h.endpoint \in ClickEndpoints
        /\ h.thrownBy = "click"
        /\ h.response.status \in {408, 500}
        /\ page = h.pageAtEntry
        /\ page # NoPage
        /\ browser = page
        /\ context = page

-----------------------------------------------------------------------------
(* Properties of the requests *)

\* The calls of a handler whose exception ends the request: every call that
\* threw, but the network-idle wait, whose exception is swallowed.
FailedCalls(h) ==
    {i \in 1..Len(h.ops) : h.ops[i].result.threw /\ h.ops[i].op # "waitForLoadState"}

C15_SetUrlResponses ==
    \A r \in PageRequests :
        LET h == handler[r] IN
        (h.endpoint = "/set-url" /\ h.pc = "done") =>
            /\ h.body.field \in {undefined, nonString} =>
                  /\ h.response.status = 400
                  /\ h.ops = <<>>
            /\ (Truthy(h.body.field) /\ IsString(h.body.field)
                   /\ h.pageAtEntry # NoPage) =>
                  /\ Calls(h, "goto") = {1}
                  /\ h.ops[1].target = PageRoot(h.pageAtEntry)
                  /\ h.ops[1].result.threw =>
                        /\ Len(h.ops) = 1
                        /\ h.response.status = 500
                        /\ h.response.error = "Failed to navigate"
                        /\ h.response.details = h.caught.message
                        /\ h.caught = Exception(h.ops[1].result.name, "engine")
                  /\ (Len(h.ops) = 3 /\ \A i \in 1..3 : h.ops[i].result = Returned(0)) =>
                        /\ h.response.status = 200
                        /\ h.response.details = "page_title"
                  /\ h.response.status = 200 =>
                        /\ Len(h.ops) = 3
                        /\ <<h.ops[1].op, h.ops[2].op, h.ops[3].op>>
                              = <<"goto", "title", "bringToFront">>
                        /\ \A i \in 1..3 : h.ops[i].result = Returned(0)

C15_Witness ==
    \E r \in PageRequests :
        LET h == handler[r] IN
        /\ h.endpoint = "/set-url"
        /\ h.pc = "done"
        /\ h.body.field = Str("url")
        /\ h.ops = <<Op("goto", PageRoot(h.pageAtEntry), Threw("Error"))>>
        /\ h.response = [status |-> 500, error |-> "Failed to navigate",
                         details |-> "engine"]

-----------------------------------------------------------------------------
(* Properties of the tag/name/classes rule and of the parser *)

\* C16: in the tag/name/classes rule, a descriptor that is empty or the bare
\* wildcard gives, with an anchor that was found, the strategy "any
\* descendant of the anchor"; without an anchor the rule gives no strategy.
C16_EmptyDescriptorUsesAnchor ==
    \A r \in PageRequests :
        LET h     == handler[r]
            attrs == ParsedOf(h)
            tag   == EffectiveTag(attrs, h.body.tagName)
            css   == CssString(attrs, tag)
        IN  (/\ Resolved(h)
             /\ ExpectedRule(attrs, tag) = 8
             /\ css \in {emptyString, Star}
             /\ AnchorFound(h)) =>
               /\ HasAnchor(h) =>
                     /\ h.thrownBy # "buildPlaywrightLocator"
                     /\ h.locator = Locate(h.ops[3].target, Star)
               /\ ~HasAnchor(h) =>
                     /\ h.thrownBy = "buildPlaywrightLocator"
                     /\ h.locator = undefinedLocator

\* The tag hint resolution reads at line 65.
TagHint(h) == Get(ParsedOf(h), "tagFromSelector")

\* The first retained segment of a selector when it contains no '=',
\* undefined otherwise.
FirstSegmentHint(customSelector) ==
    LET parts == SelectorParts(customSelector) IN
    IF Len(parts) > 0 /\ ~Includes(parts[1], "=") THEN parts[1] ELSE undefined

\* C17: the tag hint resolution uses is the first retained segment of the
\* selector when that segment contains no '=', and is absent otherwise; no
\* key=value segment sets or replaces it.
C17_TagHintFromFirstSegmentOnly ==
    \A r \in PageRequests :
        LET h == handler[r] IN
        Resolved(h) => TagHint(h) = FirstSegmentHint(h.body.field)

\* The segments of a selector: the pieces between the ';', in order.
RECURSIVE Pieces(_)
Pieces(string) ==
    IF \E i \in 1..Len(string) : string[i] = ";"
    THEN LET i == CHOOSE i \in 1..Len(string) :
                     string[i] = ";" /\ \A j \in 1..(i - 1) : string[j] # ";"
         IN  <<SubSeq(string, 1, i - 1)>> \o Pieces(SubSeq(string, i + 1, Len(string)))
    ELSE <<string>>

\* The position of the first '=' of a segment, 0 when it has none.
FirstEqual(segment) ==
    IF \E i \in 1..Len(segment) : segment[i] = "="
    THEN CHOOSE i \in 1..Len(segment) :
            segment[i] = "=" /\ \A j \in 1..(i - 1) : segment[j] # "="
    ELSE 0

\* The segments that are attributes: a trimmed segment whose first '=' is not
\* its first character; the first non-empty segment is one only if it
\* contains a '='.
AttributeSegments(customSelector) ==
    LET trimmed == [n \in DOMAIN Pieces(customSelector) |->
                       Trim(Pieces(customSelector)[n])]
    IN  {n \in DOMAIN trimmed : FirstEqual(trimmed[n]) > 1}

SegmentKey(customSelector, n) ==
    LET segment == Trim(Pieces(customSelector)[n]) IN
    Trim(SubSeq(segment, 1, FirstEqual(segment) - 1))

SegmentValue(customSelector, n) ==
    LET segment == Trim(Pieces(customSelector)[n]) IN
    Trim(SubSeq(segment, FirstEqual(segment) + 1, Len(segment)))

\* C18: the parser returns for every selector; the keys it records are those
\* of the trimmed segments that contain a '=' at a position greater than 0,
\* split at their first '='; empty segments, later segments without '=' and
\* segments that start with '=' add no key; a key given twice holds the
\* value of its last segment.
C18_ParseRecordsAttributeSegments ==
    \A r \in PageRequests :
        LET h     == handler[r]
            s     == h.body.field
            attrs == ParsedOf(h)
            keys  == DOMAIN attrs \ {Str("tagFromSelector")}
        IN  Resolved(h) =>
               /\ keys = {SegmentKey(s, n) : n \in AttributeSegments(s)}
               /\ emptyString \notin DOMAIN attrs
               /\ \A n \in AttributeSegments(s) :
                     (\A m \in AttributeSegments(s) :
                         (m > n) => SegmentKey(s, m) # SegmentKey(s, n)) =>
                     attrs[SegmentKey(s, n)] = SegmentValue(s, n)

C18_Witness ==
    \E r \in PageRequests :
        LET h == handler[r]
            s == h.body.field
        IN  /\ Resolved(h)
            /\ \E n, m \in AttributeSegments(s) :
                  /\ n < m
                  /\ SegmentKey(s, n) = SegmentKey(s, m)
                  /\ SegmentValue(s, n) # SegmentValue(s, m)
                  /\ ParsedOf(h)[SegmentKey(s, m)] = SegmentValue(s, m)

-----------------------------------------------------------------------------
(* Properties of the pre-click waits *)

\* The queries a click handler makes to find and click its element.
LookupCalls == {"locate", "count", "click"}

\* C19: in every click endpoint the first call on the page is the
\* network-idle wait; when it has returned, timed out or failed, the settle
\* delay is waited on the same page; locators are made, counted and clicked
\* only after the settle delay has returned.
C19_LookupAfterStabilization ==
    \A r \in PageRequests :
        LET h == handler[r] IN
        (h.endpoint \in ClickEndpoints /\ h.ops # <<>>) =>
            /\ h.ops[1].op = "waitForLoadState"
            /\ h.ops[1].target = PageRoot(h.pageAtEntry)
            /\ (h.ops[1].result # Pending) <=> (Len(h.ops) >= 2)
            /\ Len(h.ops) >= 2 =>
                  /\ h.ops[2].op = "waitForTimeout"
                  /\ h.ops[2].target = PageRoot(h.pageAtEntry)
            /\ \A i \in 1..Len(h.ops) :
                  h.ops[i].op \in LookupCalls =>
                     /\ i >= 3
                     /\ h.ops[2].result = Returned(0)

C19_Witness ==
    \E r \in PageRequests :
        LET h == handler[r] IN
        /\ h.endpoint \in ClickEndpoints
        /\ Len(h.ops) >= 4
        /\ h.ops[1].result = Threw("TimeoutError")
        /\ h.ops[2] = Op("waitForTimeout", PageRoot(h.pageAtEntry), Returned(0))
        /\ h.ops[3].op = "locate"
        /\ h.ops[4].op = "count"

-----------------------------------------------------------------------------
(* Properties of the role rule *)

\* The scope a resolved handler looked its target up in: the anchor when
\* closestId is present, else the page.
ScopeOf(h) ==
    IF HasAnchor(h) THEN h.ops[3].target ELSE PageRoot(h.pageAtEntry)

HigherThanRole == {"id", "data-testid", "data-cy", "data-qa"}

\* C20: with role present and none of id, data-testid, data-cy, data-qa
\* present, the strategy is the role lookup, filtered by the accessible name
\* text when text is present, else aria-label when aria-label is present,
\* else not filtered; with aria-label present and role absent it is the
\* label lookup.
C20_RoleLookupName ==
    \A r \in PageRequests :
        LET h     == handler[r]
            attrs == ParsedOf(h)
            has(k) == Truthy(Get(attrs, k))
            name  == IF has("text") THEN Get(attrs, "text")
                     ELSE IF has("aria-label") THEN Get(attrs, "aria-label")
                     ELSE undefined
        IN  (/\ Resolved(h)
             /\ AnchorFound(h)
             /\ \A k \in HigherThanRole : ~has(k)) =>
               /\ has("role") =>
                     /\ h.thrownBy # "buildPlaywrightLocator"
                     /\ h.locator = GetByRole(ScopeOf(h), Get(attrs, "role"), name)
               /\ (~has("role") /\ has("aria-label")) =>
                     /\ h.thrownBy # "buildPlaywrightLocator"
                     /\ h.locator = GetByLabel(ScopeOf(h), Get(attrs, "aria-label"))

C20_Witness ==
    \E r \in PageRequests :
        LET h     == handler[r]
            attrs == ParsedOf(h)
        IN  /\ Resolved(h)
            /\ Truthy(Get(attrs, "role"))
            /\ Truthy(Get(attrs, "text"))
            /\ Truthy(Get(attrs, "aria-label"))
            /\ Get(attrs, "text") # Get(attrs, "aria-label")
            /\ h.locator.via = "getByRole"
            /\ h.locator.name = Get(attrs, "text")

-----------------------------------------------------------------------------
(* Properties of the shared session under restarts *)

\* C21: in every reachable state the global browser, context and page that
\* are not null belong to the same launched browser, and the page is not
\* null only if the context and the browser are not null.
C21_SessionConsistent ==
    /\ page # NoPage => (context # NoBrowser /\ browser # NoBrowser)
    /\ (context # NoBrowser /\ browser # NoBrowser) => context = browser
    /\ (page # NoPage /\ context # NoBrowser) => page = context
    /\ (page # NoPage /\ browser # NoBrowser) => page = browser

\* The page a locator, or the page itself, was made on.
RECURSIVE RootPage(_)
RootPage(l) ==
    IF l.via = "page" THEN l.page
    ELSE IF l.via = "undefined" THEN NoPage
    ELSE RootPage(l.on)

\* The calls that operate on the page.
PageOperations ==
    {"goto", "title", "bringToFront", "waitForLoadState", "waitForTimeout",
     "count", "click", "press"}

\* A /restart-browser handler is between its first line and its response.
RestartInFlight ==
    \E h \in Requests :
        handler[h].pc \in {"closing", "launch", "newContext", "newPage", "bringToFront"}

\* The browsers whose close() /restart-browser has called.
BeingClosed ==
    closed \cup {handler[h].own : h \in {g \in Requests : handler[g].pc = "closing"}}

\* C22: no step of a navigate, click or key-press handler starts an
\* operation on a page whose browser /restart-browser has begun closing,
\* and a request that arrives while a restart is in flight is answered 500.
C22_NoOperationDuringRestart ==
    [][\A r \in PageRequests :
          handler'[r].endpoint \in PageEndpoints =>
             /\ \A i \in (Len(handler[r].ops) + 1)..Len(handler'[r].ops) :
                   handler'[r].ops[i].op \in PageOperations =>
                      RootPage(handler'[r].ops[i].target) \notin BeingClosed
             /\ (handler[r].pc = "idle" /\ RestartInFlight) =>
                   /\ handler'[r].pc = "done"
                   /\ handler'[r].response.status = 500]_vars

-----------------------------------------------------------------------------
(* Properties of the responses *)

\* C23: every request a handler has accepted gets exactly one response: a
\* handler that has sent its response sends nothing more, and, every engine
\* call returning or throwing, every handler that has begun a request
\* eventually sends its response.
C23_ExactlyOneResponse ==
    /\ [][\A r \in Requests :
             handler[r].pc = "done" =>
                \/ handler'[r] = handler[r]
                \/ handler'[r] = Idle]_vars
    /\ \A r \in Requests :
          (handler[r].pc \notin {"idle", "done"}) ~> (handler[r].pc = "done")


-----------------------------------------------------------------------------
(* Properties of attributes with an empty value *)

\* The keys of the priority chain whose parsed value is the empty string.
EmptyValued(attributes) ==
    {i \in 1..Len(PriorityKeys) : Get(attributes, PriorityKeys[i]) = emptyString}

\* The keys of the priority chain that hold a value other than "".
NonEmptyValued(attributes) ==
    {i \in 1..Len(PriorityKeys) :
        /\ Get(attributes, PriorityKeys[i]) # undefined
        /\ Get(attributes, PriorityKeys[i]) # emptyString}

HoldsValue(attributes, key) ==
    Get(attributes, key) # undefined /\ Get(attributes, key) # emptyString

\* The rule that follows the empty-valued keys: that of the first key of
\* the chain with a non-empty value, else the CSS rule when the tag, name
\* or classes give it something, else none.
NextNonEmptyRule(attributes, tag) ==
    IF NonEmptyValued(attributes) # {}
    THEN CHOOSE i \in NonEmptyValued(attributes) :
            \A j \in NonEmptyValued(attributes) : i <= j
    ELSE IF tag # Star \/ HoldsValue(attributes, "name") \/ HoldsValue(attributes, "classes")
    THEN 8
    ELSE 0

\* C24: a key whose parsed value is the empty string never selects its
\* rule: the strategy is that of the next rule of the priority chain whose
\* key has a non-empty value, as if the key were absent; a closestId with an
\* empty value sets no anchor.
C24_EmptyValueIsAbsent ==
    \A r \in PageRequests :
        LET h     == handler[r]
            attrs == ParsedOf(h)
            tag   == EffectiveTag(attrs, h.body.tagName)
            rule  == NextNonEmptyRule(attrs, tag)
        IN  (Resolved(h) /\ h.caught.name # "TypeError") =>
               /\ \A i \in EmptyValued(attrs) :
                     /\ h.rule # i
                     /\ h.locator # undefinedLocator => RuleOfLocator(h.locator) # i
               /\ EmptyValued(attrs) # {} =>
                     /\ h.rule = rule
                     /\ h.locator # undefinedLocator => RuleOfLocator(h.locator) = rule
                     /\ rule \in 1..6 => h.locator # undefinedLocator
               /\ Get(attrs, "closestId") = emptyString =>
                     /\ \A i \in 1..Len(h.ops) :
                           h.ops[i].target # Locate(PageRoot(h.pageAtEntry), IdSelector(emptyString))
                     /\ h.caught.message # "AnchorNotFound"

\* id and data-testid were given without a value and role with one: the
\* lookup is the one by role.
C24_Witness ==
    \E r \in PageRequests :
        LET h == handler[r] IN
        /\ Resolved(h)
        /\ Get(ParsedOf(h), "id") = emptyString
        /\ Get(ParsedOf(h), "data-testid") = emptyString
        /\ HoldsValue(ParsedOf(h), "role")
        /\ h.rule = 5
        /\ h.locator.via = "getByRole"


-----------------------------------------------------------------------------
(* Properties of the startup *)

\* initializePlaywright, called by startServer, has returned.
StartupCompleted == handler[0].pc = "done" /\ launched >= 1

\* C25: no request is handled before the startup session exists: the server
\* listens only once initializePlaywright has returned, and as long as no
\* restart has closed that session the global page is not null and every
\* handler that begins, the first one included, finds it so.
C25_NoRequestBeforeSession ==
    /\ process = "listening" => StartupCompleted
    /\ \A r \in Requests : handler[r].pc # "idle" => StartupCompleted
    /\ (process = "listening" /\ closed = {}) =>
          /\ page # NoPage
          /\ \A r \in PageRequests :
                handler[r].endpoint \in PageEndpoints => handler[r].pageAtEntry # NoPage

\* The first request since the startup is being handled: no restart has
\* begun, and the handler found the page of the startup session.
C25_Witness ==
    /\ process = "listening"
    /\ launched = 1
    /\ closed = {}
    /\ \A r \in Requests \ PageRequests : handler[r].pc = "idle"
    /\ \E r \in PageRequests :
          /\ handler[r].endpoint \in PageEndpoints
          /\ handler[r].pc = "done"
          /\ handler[r].pageAtEntry = 1
          /\ handler[r].response.status = 200

=============================================================================
